---- MODULE Spec2Model ----
(***************************************************************************)
(* Model of the Wikipedia category word-frequency analyzer                 *)
(* (src/wiki_category_analysis.py, src/app.py).                            *)
(*                                                                         *)
(* Strings that the code inspects character by character (page text,      *)
(* tokens, words) are sequences of one-character strings.  Category names  *)
(* are sequences of name parts, so that str.startswith("Category:") and    *)
(* the prefixing of "Category:" are operations on the value.  A frequency  *)
(* table (collections.Counter) is a sequence of [w, c] records in key      *)
(* insertion order.                                                        *)
(***************************************************************************)
EXTENDS Integers, Sequences, FiniteSets, TLC

VARIABLES
    cache,       \* cache directory: cache key -> state of the file
    pc,          \* per caller: position inside analyze_category
    category,    \* per caller: the argument of analyze_category
    cache_used,  \* per caller: second component of load_from_cache's result
    word_count,  \* per caller: the running Counter
    pages,       \* per caller: titles gathered by get_pages_in_category
    cmcontinue,  \* per caller: continuation token held by the listing loop
    idx,         \* per caller: index of the next page of the per-page loop
    contents,    \* per caller: the page texts fetched so far by the loop
    result,      \* per caller: what the last analyze_category call gave back
    calls,       \* number of analyze_category calls started so far
    lastLoad,    \* per caller: what load_from_cache read and how it ended
    lastReq,     \* per caller: token attached to the last listing request
    lastResp,    \* per caller: last listing response received
    nList,       \* per caller: listing requests issued by the current call
    nTokResp,    \* per caller: listing responses that carried a token
    nSleep,      \* per caller: time.sleep(1) calls of the listing loop
    listErrAt,   \* per caller: index of the first bad listing response, 0 if none
    nContent,    \* per caller: content requests issued by the current call
    pageFailed,  \* per caller: a page fetch of the current call raised
    nWrite,      \* per caller: cache files opened for writing by the current call
    saveFailed,  \* per caller: the cache write of the current call raised IOError
    text,        \* text analyzer harness: the input text
    tpc,         \* text analyzer harness: "input" or "done"
    textTable,   \* text analyzer harness: analyze_text(text)
    hpc,         \* /analyze handler: "idle", "core" (inside analyze_category), "done"
    form,        \* /analyze handler: the form of the request
    response,    \* /analyze handler: the response of the last request
    nReq,        \* /analyze handler: requests received so far
    ppc,         \* palette harness: "idle", "input", "made" or "picked"
    palArg,      \* palette harness: how the palette is obtained
    palIndex,    \* palette harness: the index the palette is indexed with
    palette,     \* palette harness: the colors of the palette object
    picked       \* palette harness: palette[palIndex]

vars == << cache, pc, category, cache_used, word_count, pages, cmcontinue, idx, contents,
           result, calls, lastLoad, lastReq, lastResp, nList, nTokResp, nSleep,
           listErrAt, nContent, pageFailed, nWrite, saveFailed,
           text, tpc, textTable, hpc, form, response, nReq,
           ppc, palArg, palIndex, palette, picked >>

coreVars == << cache, pc, category, cache_used, word_count, pages, cmcontinue, contents,
               idx, result, calls, lastLoad, lastReq, lastResp, nList, nSleep,
               nTokResp, listErrAt, nContent, pageFailed, nWrite, saveFailed >>

textVars == << text, tpc, textTable >>

webVars == << hpc, form, response, nReq >>

palVars == << ppc, palArg, palIndex, palette, picked >>

harnessVars == << textVars, webVars, palVars >>

(***************************************************************************)
(* Bounds of the model.                                                    *)
(***************************************************************************)
MaxCalls == 2          \* analyze_category calls started in one behaviour
MaxListRequests == 2   \* listing requests of one get_pages_in_category call
MaxTextLen == 4        \* length of the texts enumerated for analyze_text
MaxRequests == 2       \* requests the /analyze handler receives in one behaviour
MaxWords == 102        \* distinct words of the largest cached table
MaxColors == 7         \* length of the longest colors argument of ColorPalette
MaxIndex == 13         \* largest index a palette is indexed with

(***************************************************************************)
(* Text analyzer: analyze_text and the helpers it uses.                    *)
(***************************************************************************)

\* string.punctuation, character by character (the double quote, the
\* backslash and the backtick are written by name).
Punctuation ==
    << "!", "dquote", "#", "$", "%", "&", "'", "(", ")", "*", "+", ",", "-", ".",
       "/", ":", ";", "<", "=", ">", "?", "@", "[", "backslash", "]", "^", "_", "backtick",
       "{", "|", "}", "~" >>

Digits == { "0", "1", "2", "3", "4", "5", "6", "7", "8", "9" }

\* str.lower() on one character (the upper-case letters the model uses).
LowerChar(c) ==
    CASE c = "T" -> "t"
      [] c = "D" -> "d"
      [] c = "R" -> "r"
      [] c = "O" -> "o"
      [] OTHER -> c

\* text.lower()
Lower(s) == [ i \in 1..Len(s) |-> LowerChar(s[i]) ]

\* A period that ends a word: followed by white space or the end of the
\* text, and not itself preceded by a period.
WordFinalPeriod(s, i) ==
    /\ s[i] = "."
    /\ (i = Len(s) \/ s[i + 1] = " ")
    /\ (i = 1 \/ s[i - 1] # ".")

IsEllipsisAt(s, i) ==
    /\ i + 2 <= Len(s)
    /\ s[i] = "." /\ s[i + 1] = "." /\ s[i + 2] = "."

\* word_tokenize (NLTK, sentence splitting followed by the Treebank rules),
\* restricted to the characters of the model: white space separates tokens,
\* "..." is one token, "!" and a word-final period are tokens of their own,
\* any other character extends the current token.
RECURSIVE Scan(_, _, _, _)
Scan(s, i, cur, out) ==
    LET flushed == IF cur = << >> THEN out ELSE Append(out, cur)
    IN  IF i > Len(s) THEN flushed
        ELSE IF IsEllipsisAt(s, i)
             THEN Scan(s, i + 3, << >>, Append(flushed, << ".", ".", "." >>))
        ELSE IF s[i] = " " THEN Scan(s, i + 1, << >>, flushed)
        ELSE IF s[i] = "!" THEN Scan(s, i + 1, << >>, Append(flushed, << "!" >>))
        ELSE IF WordFinalPeriod(s, i)
             THEN Scan(s, i + 1, << >>, Append(flushed, << "." >>))
        ELSE Scan(s, i + 1, Append(cur, s[i]), out)

word_tokenize(s) == Scan(s, 1, << >>, << >>)

\* Python's (a in b) for two strings: a is a contiguous substring of b.
StrIn(a, b) ==
    \E k \in 0..(Len(b) - Len(a)) : SubSeq(b, k + 1, k + Len(a)) = a

\* str.isdigit()
IsDigit(w) == w # << >> /\ \A i \in 1..Len(w) : w[i] \in Digits

\* stopwords.words('english'): the entries that can be spelled with the
\* letters of the model.
EnglishStopWords ==
    { << "t", "h", "e" >>, << "t", "o", "o" >>, << "t", "o" >>, << "o", "r" >>,
      << "d", "o" >>, << "h", "e" >>, << "h", "e", "r" >>, << "n", "o", "t" >>,
      << "n", "o", "r" >>, << "o", "n" >>, << "n", "o" >>, << "a", "n", "d" >>,
      << "a", "n" >>, << "a" >>, << "t" >>, << "d" >>, << "o" >> }

\* wiki_common_words
wiki_common_words ==
    { << "c", "i", "t", "e" >>,
      << "r", "e", "f", "e", "r", "e", "n", "c", "e" >>,
      << "h", "t", "t", "p" >>, << "h", "t", "t", "p", "s" >>,
      << "w", "w", "w" >>, << "c", "o", "m" >>, << "o", "r", "g" >>,
      << "r", "e", "t", "r", "i", "e", "v", "e", "d" >>,
      << "i", "s", "b", "n" >>, << "d", "o", "i" >>, << "p", "a", "g", "e" >>,
      << "p", "a", "g", "e", "s" >>,
      << "w", "e", "b", "s", "i", "t", "e" >>, << "l", "i", "n", "k" >> }

stop_words == EnglishStopWords \cup wiki_common_words

\* First filter of analyze_text: drop punctuation and numbers.
NotPunctNotDigit(w) == ~StrIn(w, Punctuation) /\ ~IsDigit(w)

\* Second filter of analyze_text: drop short words and stopwords.
Meaningful(w) == Len(w) > 2 /\ w \notin stop_words

\* Index of word w in table t, 0 when it has no key w.
KeyIndex(t, w) ==
    IF \E i \in 1..Len(t) : t[i].w = w
    THEN CHOOSE i \in 1..Len(t) : t[i].w = w
    ELSE 0

\* t[w] += n on a Counter: a new key goes to the end.
AddCount(t, w, n) ==
    LET i == KeyIndex(t, w)
    IN  IF i = 0 THEN Append(t, [w |-> w, c |-> n])
        ELSE [t EXCEPT ![i].c = @ + n]

\* Counter(words)
RECURSIVE CountWords(_, _)
CountWords(ws, t) ==
    IF ws = << >> THEN t ELSE CountWords(Tail(ws), AddCount(t, Head(ws), 1))

\* Mutant: dict.update instead of Counter.update: a count is replaced.
RECURSIVE Update_Overwrites(_, _)
Update_Overwrites(t, other) ==
    IF other = << >> THEN t
    ELSE LET i == KeyIndex(t, Head(other).w)
             put == IF i = 0 THEN Append(t, Head(other))
                    ELSE [t EXCEPT ![i].c = Head(other).c]
         IN  Update_Overwrites(put, Tail(other))

\* Counter.update(other): key-wise addition, in other's key order.
RECURSIVE Update(_, _)
Update(t, other) ==
    IF other = << >> THEN t
    ELSE Update(AddCount(t, Head(other).w, Head(other).c), Tail(other))

analyze_text(s) ==
    LET tokens == word_tokenize(Lower(s))
        kept == SelectSeq(tokens, NotPunctNotDigit)
        meaningful_words == SelectSeq(kept, Meaningful)
    IN  CountWords(meaningful_words, << >>)

Keys(t) == { t[i].w : i \in 1..Len(t) }

(***************************************************************************)
(* Category names and the cache store.                                     *)
(***************************************************************************)
Callers == { "A", "B" }

Foo == << "Foo" >>
CategoryFoo == << "Category:", "Foo" >>
Bar == << "Bar" >>

\* The names analyze_category is called with.
CategoryNames == { Foo, CategoryFoo, Bar }

\* The names the single caller of Spec uses: one category under both of its
\* spellings.
SpellingsOfFoo == { Foo, CategoryFoo }

\* The names the two callers of ConcSpec use: two categories.
TwoCategories == { Foo, Bar }

\* category_name.startswith("Category:")
StartsWithCategory(name) == name # << >> /\ Head(name) = "Category:"

\* The name get_pages_in_category puts into cmtitle.
Normalize(name) ==
    IF ~StartsWithCategory(name) THEN << "Category:" >> \o name ELSE name

PartCode(part) ==
    CASE part = "Category:" -> 1
      [] part = "Foo" -> 2
      [] part = "Bar" -> 3

\* category_name.encode(): the bytes of the name, as one number.
RECURSIVE Encode(_)
Encode(name) ==
    IF name = << >> THEN 0 ELSE PartCode(Head(name)) + 4 * Encode(Tail(name))

\* hashlib.md5(...).hexdigest(): a fixed function of the bytes, without
\* collisions on the names of the model.
Md5(n) == (37 * n + 11) % 101

\* Mutant: one cache file for every category.
get_cache_path_OneFile(category_name) == Md5(0)

get_cache_path(category_name) == Md5(Encode(category_name))

\* States of a cache file.
Absent == [kind |-> "absent"]          \* no file
BadJson == [kind |-> "badjson"]        \* text that is not JSON (empty, truncated)
BadUtf8 == [kind |-> "badutf8"]        \* bytes that are not UTF-8
Unreadable == [kind |-> "unreadable"]  \* open() fails with an OSError
JsonFile(data) == [kind |-> "json", data |-> data]

CorruptKinds == { "badjson", "badutf8", "unreadable" }

\* json.dump(dict(word_count), f): the object's members in key order.
JsonDump(t) == [ i \in 1..Len(t) |-> << t[i].w, t[i].c >> ]

\* Mutant: the Counter is built from the keys, so every count is 1.
CounterOfJson_CountsKeys(data) == [ i \in 1..Len(data) |-> [w |-> data[i][1], c |-> 1] ]

\* Counter(json.load(f))
CounterOfJson(data) == [ i \in 1..Len(data) |-> [w |-> data[i][1], c |-> data[i][2]] ]

EmptyCounter == << >>

\* Mutant: a hit returns an empty Counter instead of the stored one.
load_from_cache_DropsData(entry) ==
    CASE entry.kind = "absent" ->
           [raised |-> FALSE, table |-> EmptyCounter, found |-> FALSE]
      [] entry.kind = "json" ->
           [raised |-> FALSE, table |-> EmptyCounter, found |-> TRUE]
      [] entry.kind \in { "badjson", "unreadable" } ->
           [raised |-> FALSE, table |-> EmptyCounter, found |-> FALSE]
      [] entry.kind = "badutf8" ->
           [raised |-> TRUE, table |-> EmptyCounter, found |-> FALSE]

\* load_from_cache on the file state `entry`: JSONDecodeError and IOError are
\* caught; a UnicodeDecodeError raised by f.read() is neither and propagates.
load_from_cache(entry) ==
    CASE entry.kind = "absent" ->
           [raised |-> FALSE, table |-> EmptyCounter, found |-> FALSE]
      [] entry.kind = "json" ->
           [raised |-> FALSE, table |-> CounterOfJson(entry.data), found |-> TRUE]
      [] entry.kind \in { "badjson", "unreadable" } ->
           [raised |-> FALSE, table |-> EmptyCounter, found |-> FALSE]
      [] entry.kind = "badutf8" ->
           [raised |-> TRUE, table |-> EmptyCounter, found |-> FALSE]

(***************************************************************************)
(* The remote API.                                                         *)
(***************************************************************************)
None == "None"
Tokens == { "tok1", "tok2" }
Titles == { "P1", "P2" }

\* if cmcontinue:
Truthy(tok) == tok # None /\ tok # ""

\* What one listing request can come back with: an exception (transport
\* error, or a body response.json() cannot decode), or a JSON object with or
\* without query.categorymembers and with or without continue.cmcontinue.
MemberLists == { << >> } \cup { << t >> : t \in Titles }

ListRaise == [kind |-> "raise", hasMembers |-> FALSE, members |-> << >>, cont |-> None]

ListResponses ==
    { ListRaise }
    \cup { [kind |-> "json", hasMembers |-> FALSE, members |-> << >>, cont |-> c] :
             c \in Tokens \cup { None } }
    \cup { [kind |-> "json", hasMembers |-> TRUE, members |-> m, cont |-> c] :
             m \in MemberLists, c \in Tokens \cup { None } }

NoResponse == [kind |-> "none", hasMembers |-> FALSE, members |-> << >>, cont |-> None]

\* Page texts the content endpoint serves.
TextA == << "T", "h", "e", " ", "D", "o", "g", " ", "r", "a", "n", "." >>
TextB == << "d", "o", "g", " ", ".", ".", ".", " ", "1", "2" >>
PageTexts == { TextA, TextB }

\* What one content request can come back with: an exception, or a JSON
\* object with or without an extract.
ContentResponses ==
    { [kind |-> "raise", hasExtract |-> FALSE, extract |-> << >>],
      [kind |-> "json", hasExtract |-> FALSE, extract |-> << >>] }
    \cup { [kind |-> "json", hasExtract |-> TRUE, extract |-> t] : t \in PageTexts }

\* Mutant: a page without an extract yields a placeholder text.
get_page_content_Placeholder(resp) ==
    IF resp.hasExtract THEN resp.extract ELSE << "n", "o", "n", "e" >>

\* get_page_content, given the decoded response.
get_page_content(resp) == IF resp.hasExtract THEN resp.extract ELSE << >>

(***************************************************************************)
(* State of the callers.                                                   *)
(***************************************************************************)
NoResult == [kind |-> "none"]
Returned(t) == [kind |-> "table", table |-> t]
Raised(exc) == [kind |-> "error", exc |-> exc]
NoLoad == [entry |-> "none", raised |-> FALSE, found |-> FALSE]

Key(p) == get_cache_path(category[p])

CacheKeys == { get_cache_path(n) : n \in CategoryNames }

\* The cache directory before the program runs: empty, or holding one file
\* that is damaged or cannot be opened.
InitialCaches ==
    { [k \in CacheKeys |-> Absent] }
    \cup { [k \in CacheKeys |-> IF k = d THEN e ELSE Absent] :
             d \in { get_cache_path(n) : n \in SpellingsOfFoo },
             e \in { BadJson, BadUtf8, Unreadable } }

\* No analyze_category call has been made.
CallersIdle ==
    /\ pc = [p \in Callers |-> "idle"]
    /\ category = [p \in Callers |-> Foo]
    /\ cache_used = [p \in Callers |-> FALSE]
    /\ word_count = [p \in Callers |-> EmptyCounter]
    /\ pages = [p \in Callers |-> << >>]
    /\ cmcontinue = [p \in Callers |-> None]
    /\ idx = [p \in Callers |-> 0]
    /\ contents = [p \in Callers |-> << >>]
    /\ result = [p \in Callers |-> NoResult]
    /\ calls = 0
    /\ lastLoad = [p \in Callers |-> NoLoad]
    /\ lastReq = [p \in Callers |-> None]
    /\ lastResp = [p \in Callers |-> NoResponse]
    /\ nList = [p \in Callers |-> 0]
    /\ nTokResp = [p \in Callers |-> 0]
    /\ nSleep = [p \in Callers |-> 0]
    /\ listErrAt = [p \in Callers |-> 0]
    /\ nContent = [p \in Callers |-> 0]
    /\ pageFailed = [p \in Callers |-> FALSE]
    /\ nWrite = [p \in Callers |-> 0]
    /\ saveFailed = [p \in Callers |-> FALSE]

CoreInit == cache \in InitialCaches /\ CallersIdle

TextIdle == text = << >> /\ tpc = "idle" /\ textTable = EmptyCounter

NoForm == [hasCategory |-> FALSE, category |-> << >>, hasPalette |-> FALSE, palette |-> << >>]

NoReply ==
    [status |-> 0, category |-> << >>, palette |-> << >>, colors |-> << >>,
     wordCount |-> << >>, wordCloudData |-> << >>]

WebIdle == hpc = "idle" /\ form = NoForm /\ response = NoReply /\ nReq = 0

NoPalArg == [by |-> "none", given |-> FALSE, list |-> << >>, name |-> << >>]

PalIdle ==
    ppc = "idle" /\ palArg = NoPalArg /\ palIndex = 0 /\ palette = << >> /\ picked = "none"

Init == CoreInit /\ TextIdle /\ WebIdle /\ PalIdle

\* analyze_category returns (or raises): its locals are gone.
Leave(p, res) ==
    /\ pc' = [pc EXCEPT ![p] = "idle"]
    /\ result' = [result EXCEPT ![p] = res]
    /\ cache_used' = [cache_used EXCEPT ![p] = FALSE]
    /\ pages' = [pages EXCEPT ![p] = << >>]
    /\ cmcontinue' = [cmcontinue EXCEPT ![p] = None]
    /\ idx' = [idx EXCEPT ![p] = 0]
    /\ contents' = [contents EXCEPT ![p] = << >>]

\* analyze_category(c) is entered by caller p.
CallCore(p, c) ==
    /\ pc[p] = "idle"
    /\ calls < MaxCalls
    /\ calls' = calls + 1
    /\ category' = [category EXCEPT ![p] = c]
    /\ pc' = [pc EXCEPT ![p] = "start"]
    /\ result' = [result EXCEPT ![p] = NoResult]
    /\ word_count' = [word_count EXCEPT ![p] = EmptyCounter]
    /\ lastLoad' = [lastLoad EXCEPT ![p] = NoLoad]
    /\ lastReq' = [lastReq EXCEPT ![p] = None]
    /\ lastResp' = [lastResp EXCEPT ![p] = NoResponse]
    /\ nList' = [nList EXCEPT ![p] = 0]
    /\ nTokResp' = [nTokResp EXCEPT ![p] = 0]
    /\ nSleep' = [nSleep EXCEPT ![p] = 0]
    /\ listErrAt' = [listErrAt EXCEPT ![p] = 0]
    /\ nContent' = [nContent EXCEPT ![p] = 0]
    /\ pageFailed' = [pageFailed EXCEPT ![p] = FALSE]
    /\ nWrite' = [nWrite EXCEPT ![p] = 0]
    /\ saveFailed' = [saveFailed EXCEPT ![p] = FALSE]
    /\ UNCHANGED << cache, cache_used, pages, contents, cmcontinue, idx >>

\* A caller (main) invokes analyze_category(c).
Call(p, c) == CallCore(p, c) /\ UNCHANGED harnessVars

\* Mutant: a cache hit does not return; the category is processed again.
AfterLoad_IgnoresHit(p, r) ==
    /\ pc' = [pc EXCEPT ![p] = "list"]
    /\ word_count' = [word_count EXCEPT ![p] = r.table]
    /\ cache_used' = [cache_used EXCEPT ![p] = r.found]
    /\ UNCHANGED << result, pages, contents, cmcontinue, idx >>

\* Mutant: the test is on the Counter instead of cache_used, so an empty
\* cached table counts as a miss.
AfterLoad_EmptyIsMiss(p, r) ==
    IF r.found /\ r.table # EmptyCounter
    THEN /\ Leave(p, Returned(r.table))
         /\ word_count' = [word_count EXCEPT ![p] = r.table]
    ELSE /\ pc' = [pc EXCEPT ![p] = "list"]
         /\ word_count' = [word_count EXCEPT ![p] = r.table]
         /\ cache_used' = [cache_used EXCEPT ![p] = r.found]
         /\ UNCHANGED << result, pages, contents, cmcontinue, idx >>

\* analyze_category after load_from_cache gave r: return the cached Counter
\* on a hit, go on to the listing on a miss.
AfterLoad(p, r) ==
    IF r.found
    THEN /\ Leave(p, Returned(r.table))
         /\ word_count' = [word_count EXCEPT ![p] = r.table]
    ELSE /\ pc' = [pc EXCEPT ![p] = "list"]
         /\ word_count' = [word_count EXCEPT ![p] = r.table]
         /\ cache_used' = [cache_used EXCEPT ![p] = r.found]
         /\ UNCHANGED << result, pages, contents, cmcontinue, idx >>

\* word_count, cache_used = load_from_cache(category) and the test on
\* cache_used.
Load(p) ==
    /\ pc[p] = "start"
    /\ LET entry == cache[Key(p)]
           r == load_from_cache(entry)
       IN  /\ lastLoad' = [lastLoad EXCEPT ![p] =
                             [entry |-> entry.kind, raised |-> r.raised, found |-> r.found]]
           /\ IF r.raised
              THEN /\ Leave(p, Raised("UnicodeDecodeError"))
                   /\ UNCHANGED word_count
              ELSE AfterLoad(p, r)
    /\ UNCHANGED << cache, category, calls, lastReq, lastResp, nList, nTokResp, nSleep,
                    listErrAt, nContent, pageFailed, nWrite, saveFailed, harnessVars >>

\* Mutant: the continuation token is never attached.
RequestToken_Never(cm) == None

\* params["cmcontinue"] of the next listing request (None: not attached).
RequestToken(cm) == IF Truthy(cm) THEN cm ELSE None

\* pages after the titles of one response were appended.
Gathered(ps, resp) == IF resp.hasMembers THEN ps \o resp.members ELSE ps

\* "continue" in data and "cmcontinue" in data["continue"]
HasContinue(resp) == resp.cont # None

\* Mutant: the delay follows every response, the last one too.
ListSleeps_Always(resp) == 1

\* Number of time.sleep(1) calls that follow a response: the delay is in
\* the branch that found a continuation token.
ListSleeps(resp) == IF HasContinue(resp) THEN 1 ELSE 0

\* One iteration of the while loop of get_pages_in_category: the request,
\* the response, and either the next token or the return of pages.
ListStep(p, resp) ==
    /\ pc[p] = "list"
    /\ nList[p] < MaxListRequests
    \* the remote ends the listing within MaxListRequests responses
    /\ nList[p] + 1 = MaxListRequests => resp.cont = None
    /\   /\ lastReq' = [lastReq EXCEPT ![p] = RequestToken(cmcontinue[p])]
         /\ lastResp' = [lastResp EXCEPT ![p] = resp]
         /\ nList' = [nList EXCEPT ![p] = @ + 1]
         /\ IF resp.kind = "raise"
            THEN /\ listErrAt' = [listErrAt EXCEPT ![p] = IF @ = 0 THEN nList[p] + 1 ELSE @]
                 /\ Leave(p, Raised("RequestException"))
                 /\ UNCHANGED << nTokResp, nSleep >>
            ELSE /\ listErrAt' = [listErrAt EXCEPT ![p] =
                                    IF @ = 0 /\ ~resp.hasMembers THEN nList[p] + 1 ELSE @]
                 /\ pages' = [pages EXCEPT ![p] = Gathered(@, resp)]
                 /\ nSleep' = [nSleep EXCEPT ![p] = @ + ListSleeps(resp)]
                 /\ IF HasContinue(resp)
                    THEN /\ cmcontinue' = [cmcontinue EXCEPT ![p] = resp.cont]
                         /\ nTokResp' = [nTokResp EXCEPT ![p] = @ + 1]
                         /\ UNCHANGED << pc, idx >>
                    ELSE /\ pc' = [pc EXCEPT ![p] =
                                     IF pages'[p] = << >> THEN "save" ELSE "pages"]
                         /\ idx' = [idx EXCEPT ![p] = 1]
                         /\ UNCHANGED << cmcontinue, nTokResp >>
                 /\ UNCHANGED << result, cache_used, contents >>
    /\ UNCHANGED << cache, category, word_count, calls, lastLoad, nContent,
                    pageFailed, nWrite, saveFailed, harnessVars >>

\* Mutant: a page whose fetch raises is skipped and the loop goes on.
PageRaises_Skips(p) ==
    /\ pageFailed' = [pageFailed EXCEPT ![p] = TRUE]
    /\ idx' = [idx EXCEPT ![p] = @ + 1]
    /\ pc' = [pc EXCEPT ![p] = IF idx[p] = Len(pages[p]) THEN "save" ELSE "pages"]
    /\ UNCHANGED << result, cache_used, pages, contents, cmcontinue, word_count >>

\* get_page_content raises inside the loop: nothing catches it.
PageRaises(p) ==
    /\ pageFailed' = [pageFailed EXCEPT ![p] = TRUE]
    /\ Leave(p, Raised("RequestException"))
    /\ UNCHANGED word_count

\* One iteration of the per-page loop of analyze_category.
PageStep(p, resp) ==
    /\ pc[p] = "pages"
    /\ nContent' = [nContent EXCEPT ![p] = @ + 1]
    /\ lastReq' = [lastReq EXCEPT ![p] = None]
    /\ lastResp' = [lastResp EXCEPT ![p] = NoResponse]
    /\   IF resp.kind = "raise"
         THEN PageRaises(p)
         ELSE LET content == get_page_content(resp)
                  page_word_count == analyze_text(content)
              IN  /\ word_count' = [word_count EXCEPT ![p] = Update(@, page_word_count)]
                  /\ idx' = [idx EXCEPT ![p] = @ + 1]
                  /\ pc' = [pc EXCEPT ![p] =
                              IF idx[p] = Len(pages[p]) THEN "save" ELSE "pages"]
                  /\ contents' = [contents EXCEPT ![p] = Append(@, content)]
                  /\ UNCHANGED << result, cache_used, pages, cmcontinue, pageFailed >>
    /\ UNCHANGED << cache, category, calls, lastLoad, nList, nTokResp, nSleep, listErrAt,
                    nWrite, saveFailed, harnessVars >>

\* Mutant: an IOError of the cache write reaches the caller.
SaveFails_Propagates(p) ==
    /\ saveFailed' = [saveFailed EXCEPT ![p] = TRUE]
    /\ Leave(p, Raised("IOError"))

\* save_to_cache caught an IOError: it is printed, and analyze_category
\* returns word_count.
SaveFails(p) ==
    /\ saveFailed' = [saveFailed EXCEPT ![p] = TRUE]
    /\ Leave(p, Returned(word_count[p]))

\* save_to_cache, first half: open(cache_path, 'w') creates or truncates the
\* file, or fails.
SaveOpen(p) ==
    /\ pc[p] = "save"
    /\ lastReq' = [lastReq EXCEPT ![p] = None]
    /\ lastResp' = [lastResp EXCEPT ![p] = NoResponse]
    /\ \/ /\ cache' = [cache EXCEPT ![Key(p)] = BadJson]
          /\ nWrite' = [nWrite EXCEPT ![p] = @ + 1]
          /\ pc' = [pc EXCEPT ![p] = "dump"]
          /\ UNCHANGED << result, cache_used, pages, contents, cmcontinue, idx, saveFailed >>
       \/ /\ SaveFails(p)
          /\ UNCHANGED << cache, nWrite >>
    /\ UNCHANGED << category, word_count, calls, lastLoad, nList, nTokResp, nSleep,
                    listErrAt, nContent, pageFailed, harnessVars >>

\* What the file holds after this caller's json.dump and close.  When
\* another writer's data arrived after this caller truncated the file, the
\* two writes overlay each other and the file holds either.
Written(p) ==
    IF cache[Key(p)].kind = "json"
    THEN { JsonFile(JsonDump(word_count[p])), BadJson }
    ELSE { JsonFile(JsonDump(word_count[p])) }

\* save_to_cache, second half: json.dump and the close of the file, then the
\* return of analyze_category.
SaveDump(p) ==
    /\ pc[p] = "dump"
    /\ \/ /\ \E content \in Written(p) : cache' = [cache EXCEPT ![Key(p)] = content]
          /\ Leave(p, Returned(word_count[p]))
          /\ UNCHANGED saveFailed
       \/ /\ SaveFails(p)
          /\ UNCHANGED cache
    /\ UNCHANGED << category, word_count, calls, lastLoad, lastReq, lastResp, nList,
                    nTokResp, nSleep, listErrAt, nContent, pageFailed, nWrite, harnessVars >>

\* One caller, calling analyze_category again and again, against a remote
\* that may answer anything.
Next ==
    \/ \E c \in SpellingsOfFoo : Call("A", c)
    \/ Load("A")
    \/ \E resp \in ListResponses : ListStep("A", resp)
    \/ \E resp \in ContentResponses : PageStep("A", resp)
    \/ SaveOpen("A")
    \/ SaveDump("A")

Spec == Init /\ [][Next]_vars

(***************************************************************************)
(* Two callers at the same time (two requests of the web application), on  *)
(* an initially empty cache, against a remote that answers every request:  *)
(* a category has one or two pages, and a page has one of two texts.       *)
(***************************************************************************)
ConcListResponses ==
    { [kind |-> "json", hasMembers |-> TRUE, members |-> << "P1" >>, cont |-> c] :
        c \in { None, "tok1" } }

ConcContentResponses ==
    { [kind |-> "json", hasExtract |-> TRUE, extract |-> t] : t \in PageTexts }

ConcInit == Init /\ cache = [k \in CacheKeys |-> Absent]

ConcNext ==
    \/ \E p \in Callers, c \in TwoCategories : Call(p, c)
    \/ \E p \in Callers : Load(p)
    \/ \E p \in Callers, resp \in ConcListResponses : ListStep(p, resp)
    \/ \E p \in Callers, resp \in ConcContentResponses : PageStep(p, resp)
    \/ \E p \in Callers : SaveOpen(p)
    \/ \E p \in Callers : SaveDump(p)

ConcSpec == ConcInit /\ [][ConcNext]_vars

(***************************************************************************)
(* Two callers at the same time, each with a category of its own.          *)
(***************************************************************************)
CategoryOf(p) == IF p = "A" THEN Foo ELSE Bar

DiffNext ==
    \/ \E p \in Callers : Call(p, CategoryOf(p))
    \/ \E p \in Callers : Load(p)
    \/ \E p \in Callers, resp \in ConcListResponses : ListStep(p, resp)
    \/ \E p \in Callers, resp \in ConcContentResponses : PageStep(p, resp)
    \/ \E p \in Callers : SaveOpen(p)
    \/ \E p \in Callers : SaveDump(p)

DiffSpec == ConcInit /\ [][DiffNext]_vars

(***************************************************************************)
(* Color palettes (src/templates/color_palette.py).  The colors argument   *)
(* of the constructor is absent (None) or a list.                          *)
(***************************************************************************)
NoColors == [given |-> FALSE, list |-> << >>]
Colors(list) == [given |-> TRUE, list |-> list]

Grayscale == << "#000000", "#333333", "#666666", "#999999", "#CCCCCC", "#FFFFFF" >>

\* Mutant: the constructor takes any non-empty list as it is.
ColorPaletteInit_AnyLength(colors) ==
    IF colors.given /\ colors.list # << >> THEN colors.list ELSE Grayscale

\* ColorPalette.__init__: self.colors
ColorPaletteInit(colors) ==
    IF colors.given /\ colors.list # << >> /\ Len(colors.list) = 6
    THEN colors.list
    ELSE Grayscale

\* ColorPalette.get_colors
get_colors(pal) == pal

\* ColorPalette.get_color: Python's index is 0-based
get_color(pal, index) == pal[(index % Len(pal)) + 1]

\* ColorPalette.__getitem__
getitem(pal, index) == get_color(pal, index)

MaterialPalette == ColorPaletteInit(Colors(<< "#F44336", "#2196F3", "#4CAF50", "#FFC107", "#9C27B0", "#FF9800" >>))
PastelPalette == ColorPaletteInit(Colors(<< "#FFB3BA", "#FFDFBA", "#FFFFBA", "#BAFFC9", "#BAE1FF", "#E2BAFF" >>))
VibrantPalette == ColorPaletteInit(Colors(<< "#FF1744", "#00E676", "#2979FF", "#FFEA00", "#D500F9", "#FF9100" >>))
EarthtonePalette == ColorPaletteInit(Colors(<< "#795548", "#8D6E63", "#A1887F", "#BCAAA4", "#D7CCC8", "#EFEBE9" >>))
OceanPalette == ColorPaletteInit(Colors(<< "#01579B", "#0288D1", "#29B6F6", "#81D4FA", "#B3E5FC", "#E1F5FE" >>))
SunsetPalette == ColorPaletteInit(Colors(<< "#FF6F00", "#FF9800", "#FFC107", "#FFEB3B", "#FFF176", "#FFF9C4" >>))

NameDefault == << "d", "e", "f", "a", "u", "l", "t" >>
NameMaterial == << "m", "a", "t", "e", "r", "i", "a", "l" >>
NamePastel == << "p", "a", "s", "t", "e", "l" >>
NameVibrant == << "v", "i", "b", "r", "a", "n", "t" >>
NameEarthy == << "e", "a", "r", "t", "h", "y" >>
NameOcean == << "o", "c", "e", "a", "n" >>
NameSunset == << "s", "u", "n", "s", "e", "t" >>

PaletteKeys ==
    { NameDefault, NameMaterial, NamePastel, NameVibrant, NameEarthy, NameOcean,
      NameSunset }

\* The module-level dictionary of palettes.
PALETTES ==
    [ k \in PaletteKeys |->
        CASE k = NameDefault -> ColorPaletteInit(NoColors)
          [] k = NameMaterial -> MaterialPalette
          [] k = NamePastel -> PastelPalette
          [] k = NameVibrant -> VibrantPalette
          [] k = NameEarthy -> EarthtonePalette
          [] k = NameOcean -> OceanPalette
          [] k = NameSunset -> SunsetPalette ]

\* get_palette(name): PALETTES.get(name.lower(), ColorPalette())
get_palette(name) ==
    IF Lower(name) \in PaletteKeys THEN PALETTES[Lower(name)] ELSE ColorPaletteInit(NoColors)

(***************************************************************************)
(* The /analyze handler (src/app.py).                                      *)
(***************************************************************************)
TopN == 100

\* sorted(items, key = count, reverse = True): a stable sort, so an item
\* stands behind the items of greater count and behind the earlier items
\* of equal count.
SortedByCount(t) ==
    LET n == Len(t)
        Before(j, i) == t[j].c > t[i].c \/ (t[j].c = t[i].c /\ j < i)
        place == [ i \in 1..n |-> 1 + Cardinality({ j \in 1..n : Before(j, i) }) ]
    IN  [ r \in 1..n |-> t[CHOOSE i \in 1..n : place[i] = r] ]

\* Mutant: the first n items in key order, unsorted.
most_common_Unsorted(t, n) == SubSeq(t, 1, IF n < Len(t) THEN n ELSE Len(t))

\* Counter.most_common(n): heapq.nlargest(n, items, key = count), which is
\* sorted(items, key = count, reverse = True)[:n].
most_common(t, n) ==
    LET s == SortedByCount(t) IN SubSeq(s, 1, IF n < Len(s) THEN n ELSE Len(s))

\* The loop that builds word_cloud_data; enumerate counts from 0.
WordCloudData(table, pal) ==
    LET top == most_common(table, TopN)
    IN  [ i \in 1..Len(top) |->
            [text |-> top[i].w, size |-> top[i].c, color |-> getitem(pal, i - 1)] ]

\* request.form.get('category', '')
FormCategory(f) == IF f.hasCategory THEN f.category ELSE << >>

\* request.form.get('palette', 'default')
FormPalette(f) == IF f.hasPalette THEN f.palette ELSE NameDefault

\* Mutant: the handler does not look at the category.
Rejected_Never(c) == FALSE

\* if not category
Rejected(c) == c = << >>

ErrorReply(status) == [NoReply EXCEPT !.status = status]

OkReply(f, table) ==
    [status |-> 200,
     category |-> FormCategory(f),
     palette |-> FormPalette(f),
     colors |-> get_colors(get_palette(FormPalette(f))),
     wordCount |-> table,
     wordCloudData |-> WordCloudData(table, get_palette(FormPalette(f)))]

NameOceanCapital == << "O", "c", "e", "a", "n" >>
NameUnknown == << "n", "e", "o", "n" >>

Forms ==
    { [hasCategory |-> FALSE, category |-> << >>, hasPalette |-> hp, palette |-> n] :
        hp \in { TRUE }, n \in { NameOcean } }
    \cup { [hasCategory |-> TRUE, category |-> c, hasPalette |-> TRUE, palette |-> n] :
             c \in { << >>, Foo }, n \in { NameOceanCapital, NameUnknown, NameSunset } }
    \cup { [hasCategory |-> TRUE, category |-> Foo, hasPalette |-> FALSE, palette |-> << >>] }

\* The handler receives a request: it answers 400 at once or enters
\* analyze_category.
Request(f) ==
    /\ hpc \in { "idle", "done" }
    /\ nReq < MaxRequests
    /\ nReq' = nReq + 1
    /\ form' = f
    /\ IF Rejected(FormCategory(f))
       THEN /\ response' = ErrorReply(400)
            /\ hpc' = "done"
            /\ UNCHANGED coreVars
       ELSE /\ CallCore("A", FormCategory(f))
            /\ response' = NoReply
            /\ hpc' = "core"
    /\ UNCHANGED << textVars, palVars >>

\* analyze_category has returned or raised: the handler builds the response.
Respond ==
    /\ hpc = "core"
    /\ pc["A"] = "idle"
    /\ response' = IF result["A"].kind = "table"
                   THEN OkReply(form, result["A"].table)
                   ELSE ErrorReply(500)
    /\ hpc' = "done"
    /\ UNCHANGED << form, nReq, coreVars, textVars, palVars >>

\* Words and counts of the cached tables the handler is run on.
Alpha == << "a", "b", "c", "d", "e", "f", "g", "h", "i", "j", "k", "l" >>

WordNo(i) == << Alpha[(i \div 10) + 1], Alpha[(i % 10) + 1] >>

CountNo(i, k) == IF k = 1 THEN ((7 * i) % 5) + 1 ELSE (i \div 2) + 1

TableOf(n, k) == [ i \in 1..n |-> [w |-> WordNo(i), c |-> CountNo(i, k)] ]

CachedTables ==
    { TableOf(n, k) : n \in { 0, TopN - 1, TopN, MaxWords }, k \in { 1, 2 } }

WebCaches ==
    { [k \in CacheKeys |-> Absent] }
    \cup { [k \in CacheKeys |->
              IF k = get_cache_path(Foo) THEN JsonFile(JsonDump(t)) ELSE Absent] :
             t \in CachedTables }

WebListResponses == ConcListResponses \cup { ListRaise }

WebInit == cache \in WebCaches /\ CallersIdle /\ TextIdle /\ WebIdle /\ PalIdle

WebNext ==
    \/ \E f \in Forms : Request(f)
    \/ Load("A")
    \/ \E resp \in WebListResponses : ListStep("A", resp)
    \/ \E resp \in ConcContentResponses : PageStep("A", resp)
    \/ SaveOpen("A")
    \/ SaveDump("A")
    \/ Respond

WebSpec == WebInit /\ [][WebNext]_vars

(***************************************************************************)
(* Harness for the palettes: a palette made by the constructor from any    *)
(* colors argument or looked up by any name, then indexed.                 *)
(***************************************************************************)
ColorArgs ==
    { NoColors }
    \cup { Colors(l) : l \in UNION { [1..n -> { "#111111", "#222222" }] : n \in 0..MaxColors } }

LookupNames == PaletteKeys \cup { NameOceanCapital, NameUnknown, << >> }

PalArgs ==
    { [by |-> "ctor", given |-> c.given, list |-> c.list, name |-> << >>] : c \in ColorArgs }
    \cup { [by |-> "name", given |-> FALSE, list |-> << >>, name |-> n] : n \in LookupNames }

PalInit ==
    /\ palArg \in PalArgs
    /\ palIndex \in 0..MaxIndex
    /\ ppc = "input"
    /\ palette = << >>
    /\ picked = "none"
    /\ cache = [k \in CacheKeys |-> Absent]
    /\ CallersIdle /\ TextIdle /\ WebIdle

Construct ==
    /\ ppc = "input"
    /\ palArg.by = "ctor"
    /\ palette' = ColorPaletteInit([given |-> palArg.given, list |-> palArg.list])
    /\ ppc' = "made"
    /\ UNCHANGED << palArg, palIndex, picked, coreVars, textVars, webVars >>

Lookup ==
    /\ ppc = "input"
    /\ palArg.by = "name"
    /\ palette' = get_palette(palArg.name)
    /\ ppc' = "made"
    /\ UNCHANGED << palArg, palIndex, picked, coreVars, textVars, webVars >>

Pick ==
    /\ ppc = "made"
    /\ picked' = getitem(palette, palIndex)
    /\ ppc' = "picked"
    /\ UNCHANGED << palArg, palIndex, palette, coreVars, textVars, webVars >>

PalNext == Construct \/ Lookup \/ Pick

PalSpec == PalInit /\ [][PalNext]_vars

(***************************************************************************)
(* Harness for analyze_text: every text over TextAlphabet up to MaxTextLen. *)
(***************************************************************************)
TextAlphabet == { "o", "r", "g", "t", "T", "1", ".", "!", " " }

TextsUpTo(n) == UNION { [1..k -> TextAlphabet] : k \in 0..n }

TextInit ==
    /\ text \in TextsUpTo(MaxTextLen)
    /\ tpc = "input"
    /\ textTable = EmptyCounter
    /\ CoreInit
    /\ cache = [k \in CacheKeys |-> Absent]
    /\ WebIdle /\ PalIdle

Analyze ==
    /\ tpc = "input"
    /\ textTable' = analyze_text(text)
    /\ tpc' = "done"
    /\ UNCHANGED << text, coreVars, webVars, palVars >>

TextNext == Analyze

TextSpec == TextInit /\ [][TextNext]_vars
(***************************************************************************)
(* Properties.                                                             *)
(***************************************************************************)

\* The Counter that is the sum, page by page, of analyze_text of the texts.
RECURSIVE Aggregate(_)
Aggregate(texts) ==
    IF texts = << >> THEN EmptyCounter
    ELSE Update(Aggregate(SubSeq(texts, 1, Len(texts) - 1)),
                analyze_text(texts[Len(texts)]))

PunctuationChars == { Punctuation[i] : i \in 1..Len(Punctuation) }

PunctuationOnly(w) == w # << >> /\ \A i \in 1..Len(w) : w[i] \in PunctuationChars

\* C1: the cache key of a name without the "Category:" prefix equals the
\* key of the prefixed name (the name is normalized before it is hashed),
\* and names that normalize to different identifiers have different keys.
C1_CacheKeyStability ==
    /\ \A p \in Callers :
         (pc[p] # "idle" /\ ~StartsWithCategory(category[p]))
           => Key(p) = get_cache_path(Normalize(category[p]))
    /\ \A a, b \in CategoryNames :
         Normalize(a) # Normalize(b) => get_cache_path(a) # get_cache_path(b)

\* C2: a call that finds a readable entry returns exactly the table stored
\* in it, leaves the cache as it is (so the next such call returns the same
\* table), and issues no listing request, no content request and no cache
\* write.
C2_HitReturnsStored ==
    [][ \A p \in Callers :
          (pc[p] = "start" /\ pc'[p] # "start" /\ cache[Key(p)].kind = "json")
            => LET data == cache[Key(p)].data
                   got == result'[p]
               IN  /\ pc'[p] = "idle"
                   /\ got.kind = "table"
                   /\ Len(got.table) = Len(data)
                   /\ \A i \in 1..Len(data) :
                        got.table[i].w = data[i][1] /\ got.table[i].c = data[i][2]
                   /\ cache' = cache
                   /\ nList'[p] = 0 /\ nContent'[p] = 0 /\ nWrite'[p] = 0 ]_vars

\* C2 witness: a call was a cache hit and returned a table with words in it.
C2_Witness ==
    \E p \in Callers :
        /\ pc[p] = "idle" /\ lastLoad[p].entry = "json" /\ lastLoad[p].found
        /\ result[p].kind = "table" /\ result[p].table # EmptyCounter

\* C3: when a listing response after the first is an error, the call has
\* failed with an error to its caller and has written no cache entry.
C3_ListingErrorAborts ==
    \A p \in Callers :
        listErrAt[p] > 1
          => (pc[p] = "idle" /\ result[p].kind = "error" /\ nWrite[p] = 0)

\* C4: a page whose fetch fails aborts the call with that failure and
\* nothing written; the cache write is reached only after every listed page
\* was fetched, analyzed and merged, with the running table being the
\* aggregate over all of them.
C4_AllPagesOrNothing ==
    \A p \in Callers :
        /\ pageFailed[p]
             => (pc[p] = "idle" /\ result[p] = Raised("RequestException") /\ nWrite[p] = 0)
        /\ pc[p] \in { "save", "dump" }
             => /\ ~pageFailed[p]
                /\ nContent[p] = Len(pages[p])
                /\ Len(contents[p]) = Len(pages[p])
                /\ word_count[p] = Aggregate(contents[p])
        /\ nWrite[p] > 0 => (~pageFailed[p] /\ result[p].kind # "error")

\* C4 witness: the fetch of a later page failed after an earlier page had
\* been merged.
C4_Witness ==
    \E p \in Callers : pageFailed[p] /\ nContent[p] >= 2 /\ word_count[p] # EmptyCounter

\* C5: get_pages_in_category is all-or-nothing: once a response of the
\* pagination sequence is unreachable or malformed, the call has failed with
\* an error and returns no titles.
C5_ListingAllOrNothing ==
    \A p \in Callers :
        listErrAt[p] # 0 => (pc[p] = "idle" /\ result[p].kind = "error")

\* C6 as stated: an entry that holds a table is never changed again.
C6_EntryNeverChanges ==
    [][ \A k \in CacheKeys : cache[k].kind = "json" => cache'[k] = cache[k] ]_vars

\* C6 as amended: an entry that holds a table is changed only by the cache
\* write of a call whose own lookup was a miss; a call whose lookup found
\* the entry never writes.
C6_ChangedOnlyByMissedCall ==
    [][ /\ \A k \in CacheKeys :
             (cache[k].kind = "json" /\ cache'[k] # cache[k])
               => \E p \in Callers :
                     /\ Key(p) = k
                     /\ pc[p] \in { "save", "dump" } /\ pc'[p] # pc[p]
                     /\ lastLoad[p].entry # "json" /\ ~lastLoad[p].found
        /\ \A p \in Callers :
             nWrite'[p] > nWrite[p] => (~lastLoad[p].found /\ ~cache_used[p]) ]_vars

\* C6 witness: two callers analyzing the same category both missed and both
\* opened the category's cache file for writing.
C6_Witness ==
    \E p, q \in Callers :
        /\ p # q /\ category[p] = category[q]
        /\ nWrite[p] > 0 /\ nWrite[q] > 0
        /\ ~lastLoad[p].found /\ ~lastLoad[q].found
        /\ cache[Key(p)].kind = "json"

\* C7: load_from_cache gives (empty table, found = false) when there is no
\* entry and when the entry is corrupt or unreadable, and never raises.
C7_CorruptIsMiss ==
    \A p \in Callers :
        lastLoad[p].entry \in CorruptKinds \cup { "absent" }
          => (~lastLoad[p].raised /\ ~lastLoad[p].found)

\* C8: when the cache write fails, analyze_category still returns the
\* aggregated table, the one it returns when the write succeeds.
C8_SaveFailureNotFatal ==
    \A p \in Callers :
        saveFailed[p] => (pc[p] = "idle" /\ result[p] = Returned(word_count[p]))

\* C8 witness: a cache write failed on a call that had aggregated words.
C8_Witness ==
    \E p \in Callers : saveFailed[p] /\ word_count[p] # EmptyCounter

C10_FilteringCorrect ==
    tpc = "done"
      => \A w \in Keys(textTable) :
            /\ Len(w) > 2
            /\ ~IsDigit(w)
            /\ ~PunctuationOnly(w)
            /\ w \notin stop_words

\* word_count[w] of a Counter: 0 for a missing key.
CountOf(t, w) == LET i == KeyIndex(t, w) IN IF i = 0 THEN 0 ELSE t[i].c

\* analyze_text of every text get_page_content can return.
PageTable == [ t \in PageTexts \cup { << >> } |-> analyze_text(t) ]

\* Sum over the texts of the count of w in analyze_text of each.
RECURSIVE SumOver(_, _)
SumOver(texts, w) ==
    IF texts = << >> THEN 0
    ELSE CountOf(PageTable[Head(texts)], w) + SumOver(Tail(texts), w)

WordsOf(texts) == UNION { Keys(PageTable[texts[i]]) : i \in 1..Len(texts) }

\* The orders in which n pages can be listed, for every n a listing can reach.
Orders ==
    [ n \in 0..(MaxListRequests * Cardinality(Titles)) |->
        { f \in [1..n -> 1..n] : \A i, j \in 1..n : f[i] = f[j] => i = j } ]

\* The Counter that is the sum of the tables, merged one after the other.
RECURSIVE MergeAll(_)
MergeAll(tables) ==
    IF tables = << >> THEN EmptyCounter
    ELSE Update(MergeAll(SubSeq(tables, 1, Len(tables) - 1)), tables[Len(tables)])

\* C11: on a miss that completes, the returned table counts every word as
\* often as the analyze_text tables of all listed pages together; a merge
\* adds the page's counts key by key and lowers none; and the counts are
\* the same for every order of the pages.
C11_AggregationIsSum ==
    [][ \A p \in Callers :
          /\ (nContent'[p] = nContent[p] + 1 /\ pc'[p] \in { "pages", "save" })
                => LET page == PageTable[contents'[p][Len(contents'[p])]]
                   IN  \A w \in Keys(word_count[p]) \cup Keys(word_count'[p]) \cup Keys(page) :
                          /\ CountOf(word_count'[p], w) >= CountOf(word_count[p], w)
                          /\ CountOf(word_count'[p], w)
                               = CountOf(word_count[p], w) + CountOf(page, w)
          /\ (pc[p] \in { "save", "dump" } /\ pc'[p] = "idle")
                => /\ result'[p] = Returned(word_count[p])
                   /\ \A w \in Keys(word_count[p]) \cup WordsOf(contents[p]) :
                        CountOf(word_count[p], w) = SumOver(contents[p], w)
                   /\ LET n == Len(contents[p])
                           tables == [ i \in 1..n |-> PageTable[contents[p][i]] ]
                       IN  \A f \in Orders[n] :
                             LET merged == MergeAll([ i \in 1..n |-> tables[f[i]] ])
                             IN  \A w \in Keys(word_count[p]) \cup Keys(merged) :
                                   CountOf(merged, w) = CountOf(word_count[p], w) ]_vars

\* C11 witness: a miss returned a table in which a word of two pages with
\* different texts has count 2.
C11_Witness ==
    \E p \in Callers :
        /\ pc[p] = "idle" /\ ~lastLoad[p].found /\ result[p].kind = "table"
        /\ Len(result[p].table) = 3
        /\ \E i \in 1..3 : result[p].table[i].c = 2

\* Everything a call of caller p keeps to itself.
Locals(p) ==
    << pc[p], category[p], cache_used[p], word_count[p], pages[p], cmcontinue[p],
       idx[p], contents[p], result[p], lastLoad[p], nList[p], nTokResp[p],
       nSleep[p], nContent[p], pageFailed[p], nWrite[p], saveFailed[p] >>

\* C13: with two callers on two different categories, a step of one caller
\* changes neither the other caller's state nor the cache entry of the
\* category the other caller is analyzing or has analyzed; a call that missed returns the aggregate of the texts it fetched
\* itself and a call that hit returns its own category's entry; and when
\* both callers are done, the entry of each call whose write succeeded
\* holds the whole table that call returned.
C13_DifferentCategoriesIndependent ==
    [][ /\ \A p, q \in Callers :
             (p # q /\ Locals(q)' # Locals(q))
               => /\ Locals(p)' = Locals(p)
                  /\ (pc[p] # "idle" \/ result[p].kind # "none")
                       => cache'[Key(p)] = cache[Key(p)]
        /\ \A p \in Callers :
             (pc[p] # "idle" /\ pc'[p] = "idle")
               => /\ result'[p].kind = "table"
                  /\ result'[p].table =
                       IF lastLoad'[p].found
                       THEN CounterOfJson(cache[Key(p)].data)
                       ELSE Aggregate(contents[p])
        /\ (\A p \in Callers : pc'[p] = "idle")
             => \A p \in Callers :
                  (result'[p].kind = "table" /\ ~saveFailed'[p])
                    => cache'[Key(p)] = JsonFile(JsonDump(result'[p].table)) ]_vars

\* C13 witness: both callers are between the truncation and the dump of
\* their cache files at the same time, with different tables.
C13_Witness ==
    /\ pc["A"] = "dump" /\ pc["B"] = "dump"
    /\ category["A"] # category["B"]
    /\ word_count["A"] # word_count["B"]
    /\ word_count["A"] # EmptyCounter /\ word_count["B"] # EmptyCounter

\* C12: the wordCloudData of a 200 response has min(100, number of words)
\* entries, each a word of the returned table with its count, no word
\* twice, in non-increasing order of count, words of equal count in the
\* order of their keys in the table, and no omitted word has a greater
\* count than an included one.
C12_TopWordsByCount ==
    response.status = 200 =>
        LET t == response.wordCount
            d == response.wordCloudData
            at == [ i \in 1..Len(d) |-> KeyIndex(t, d[i].text) ]
        IN  /\ t = result["A"].table
            /\ Len(d) = IF TopN < Len(t) THEN TopN ELSE Len(t)
            /\ \A i \in 1..Len(d) : at[i] # 0 /\ t[at[i]].c = d[i].size
            /\ \A i, j \in 1..Len(d) :
                 i < j => /\ at[i] # at[j]
                          /\ d[i].size >= d[j].size
                          /\ d[i].size = d[j].size => at[i] < at[j]
            /\ \A k \in 1..Len(t) :
                 (\A i \in 1..Len(d) : at[i] # k)
                   => \A i \in 1..Len(d) : t[k].c <= d[i].size

\* C12 witness: a table of more than 100 words gave 100 entries, two of
\* them with the same count, and the first entry is not the first key.
C12_Witness ==
    /\ response.status = 200
    /\ Len(response.wordCount) > TopN
    /\ Len(response.wordCloudData) = TopN
    /\ response.wordCloudData[1].size = response.wordCloudData[2].size
    /\ response.wordCloudData[1].text # response.wordCount[1].w

\* C14: a request without a category or with an empty one is answered with
\* status 400 in the step that receives it, and that step changes nothing
\* of the core: no analyze_category call, no cache read, no request to the
\* remote, no cache write; and no call is running while the 400 stands.
C14_EmptyCategoryRejected ==
    [][ /\ (nReq' = nReq + 1 /\ (~form'.hasCategory \/ form'.category = << >>))
             => /\ response'.status = 400
                /\ hpc' = "done"
                /\ UNCHANGED coreVars
        /\ response.status = 400 => (pc["A"] = "idle" /\ UNCHANGED cache) ]_vars

\* C14 witness: a request with an empty category got 400 after an earlier
\* request had been analyzed.
C14_Witness ==
    /\ response.status = 400 /\ form.hasCategory /\ form.category = << >>
    /\ nReq = 2 /\ calls = 1

SampleTable == TableOf(8, 1)

\* C17: a palette made by the constructor or looked up by name has 6
\* colors; indexing it with i gives the color at position i mod 6; and the
\* entries of wordCloudData, numbered from 0, get the colors at their
\* numbers mod 6.
C17_SixColorsCyclic ==
    ppc \in { "made", "picked" } =>
        /\ Len(palette) = 6
        /\ ppc = "picked" => picked = palette[(palIndex % 6) + 1]
        /\ \A i \in 0..MaxIndex : getitem(palette, i) = palette[(i % 6) + 1]
        /\ LET d == WordCloudData(SampleTable, palette)
           IN  \A i \in 1..Len(d) : d[i].color = get_colors(palette)[((i - 1) % 6) + 1]

\* C17 witness: a palette made from a list of 5 colors was indexed beyond
\* its length.
C17_Witness ==
    /\ ppc = "picked" /\ palArg.by = "ctor" /\ Len(palArg.list) = 5
    /\ palIndex > 6

\* C15: a listing that has issued n requests and ended has made n - 1
\* delays, and one that is about to issue request n + 1 has made n: one
\* delay after each response that carried a token, none after the last.
C15_DelayBetweenRequests ==
    \A p \in Callers :
        nList[p] > 0
          => /\ nSleep[p] = nTokResp[p]
             /\ nSleep[p] = IF pc[p] = "list" THEN nList[p] ELSE nList[p] - 1

\* C15 witness: a listing of two requests returned after one delay.
C15_Witness ==
    \E p \in Callers : pc[p] = "pages" /\ nList[p] = 2 /\ nSleep[p] = 1

\* C16: a response without an extract makes get_page_content return the
\* empty string, and an iteration of the page loop on an empty text leaves
\* the running table as it is and goes on with the loop.
C16_EmptyPageContributesNothing ==
    [][ /\ \A resp \in ContentResponses :
             (resp.kind = "json" /\ ~resp.hasExtract) => get_page_content(resp) = << >>
        /\ \A p \in Callers :
             (/\ nContent'[p] = nContent[p] + 1
              /\ Len(contents'[p]) = Len(contents[p]) + 1
              /\ contents'[p][Len(contents'[p])] = << >>)
               => /\ word_count'[p] = word_count[p]
                  /\ pc'[p] \in { "pages", "save" }
                  /\ result'[p] = result[p]
                  /\ ~pageFailed'[p] ]_vars

\* C16 witness: the loop went on after an empty second page, the words of
\* the first page still in the table.
C16_Witness ==
    \E p \in Callers :
        /\ pc[p] = "save" /\ Len(contents[p]) = 2
        /\ contents[p][1] # << >> /\ contents[p][2] = << >>
        /\ word_count[p] = PageTable[contents[p][1]]

\* C18: a listing without titles leads straight to the cache write with an
\* empty table; the write, when it succeeds, stores the empty table and the
\* call returns it; the entry then stays, and every later call for the name
\* is a hit that returns the empty table and contacts nothing.
C18_EmptyCategoryIsCached ==
    [][ \A p \in Callers :
          /\ (pc[p] = "list" /\ pc'[p] \notin { "list", "idle" } /\ pages'[p] = << >>)
                => (pc'[p] = "save" /\ word_count'[p] = EmptyCounter)
          /\ (pc[p] = "dump" /\ pc'[p] = "idle" /\ ~saveFailed'[p] /\ pages[p] = << >>)
                => /\ cache'[Key(p)] = JsonFile(<< >>)
                   /\ result'[p] = Returned(EmptyCounter)
          /\ (pc[p] = "start" /\ pc'[p] # "start" /\ cache[Key(p)] = JsonFile(<< >>))
                => /\ pc'[p] = "idle"
                   /\ result'[p] = Returned(EmptyCounter)
                   /\ lastLoad'[p].found
                   /\ nList'[p] = 0 /\ nContent'[p] = 0 /\ nWrite'[p] = 0
                   /\ cache' = cache
          /\ cache[Key(p)] = JsonFile(<< >>) => cache'[Key(p)] = cache[Key(p)] ]_vars

\* C18 witness: a call was a hit on an entry that holds the empty table.
C18_Witness ==
    \E p \in Callers :
        /\ pc[p] = "idle" /\ lastLoad[p].found
        /\ cache[Key(p)] = JsonFile(<< >>)
        /\ result[p] = Returned(EmptyCounter) /\ nList[p] = 0

\* C19: after a miss returned T and its cache write succeeded,
\* load_from_cache gives (T, found) with T's words, counts and key order;
\* and a call that finds an entry returns what load_from_cache gives for
\* it, so the next call returns a table equal to T.
C19_SaveLoadRoundTrip ==
    [][ \A p \in Callers :
          /\ (pc[p] = "dump" /\ pc'[p] = "idle" /\ ~saveFailed'[p])
                => LET r == load_from_cache(cache'[Key(p)])
                   IN  /\ result'[p].kind = "table"
                       /\ ~r.raised /\ r.found
                       /\ r.table = result'[p].table
          /\ (pc[p] = "start" /\ pc'[p] # "start" /\ cache[Key(p)].kind = "json")
                => result'[p] = Returned(load_from_cache(cache[Key(p)]).table) ]_vars

\* C19 witness: a hit returned a table of several words, one with count 2,
\* that an earlier miss had written.
C19_Witness ==
    \E p \in Callers :
        /\ pc[p] = "idle" /\ lastLoad[p].found /\ result[p].kind = "table"
        /\ Len(result[p].table) >= 2
        /\ \E i \in 1..Len(result[p].table) : result[p].table[i].c = 2
====
